---- MODULE Spec2Model ----
(***************************************************************************)
(* PVKenyaEngineer (src/engineer/pv_kenya.py): the class index built by    *)
(* the constructor and process_single_file, which turns one raster tile    *)
(* and the label table into a labelled instance, folds it into the two     *)
(* running normalization accumulators and optionally extracts autoencoder  *)
(* instances.                                                              *)
(*                                                                         *)
(* Optional values (None / a value) are written <<>> / <<v>>.  An array    *)
(* is a sequence of pixels, each pixel a sequence of channels at the one   *)
(* timestep modelled: the labelled array holds one pixel, the surrounding  *)
(* array nine.  Coordinates are integers; NaN is a reserved integer.       *)
(***************************************************************************)
EXTENDS Integers, Sequences, FiniteSets, TLC

VARIABLES labels, classes_to_index, normalizing_dict_interim,
          surrounding_normalizing_dict_interim, call, result

vars == <<labels, classes_to_index, normalizing_dict_interim,
          surrounding_normalizing_dict_interim, call, result>>

\* ---------------------------------------------------------------- bounds
\* longest label table
MaxRows == 2
\* label and raster coordinates range over 0..MaxCoord
MaxCoord == 1
\* process_single_file is not started once the labelled accumulator holds
\* this many samples
MaxFolds == 2

\* ------------------------------------------------------------- basic values
None == <<>>
Some(v) == <<v>>
NaN == -999

CropTypes == {"maize", "tea"}
Coords == 0 .. MaxCoord
LabelRows == [lat : Coords, lon : Coords,
              crop_type : {None} \cup {Some(c) : c \in CropTypes}]

RECURSIVE SeqsUpTo(_, _)
SeqsUpTo(S, n) ==
    IF n = 0 THEN {<<>>}
    ELSE LET shorter == SeqsUpTo(S, n - 1)
         IN  shorter \cup {Append(s, e) : s \in {t \in shorter : Len(t) = n - 1}, e \in S}

LabelTables == SeqsUpTo(LabelRows, MaxRows)

\* ------------------------------------------------------------- constructor
\* pandas Series.unique(): the distinct values in order of first appearance
RECURSIVE unique(_)
unique(s) ==
    IF Len(s) = 0 THEN <<>>
    ELSE LET front == unique(SubSeq(s, 1, Len(s) - 1))
             last  == s[Len(s)]
         IN  IF \E i \in 1 .. Len(front) : front[i] = last
             THEN front ELSE Append(front, last)

crop_type_column(table) == [i \in 1 .. Len(table) |-> table[i].crop_type]

\* enumerate before dropping None: ids follow the position in unique_classes
ClassesToIndex_EnumerateFirst(table) ==
    LET unique_classes == unique(crop_type_column(table))
        kept == {i \in 1 .. Len(unique_classes) : unique_classes[i] # None}
    IN  [crop \in {unique_classes[i][1] : i \in kept} |->
            (CHOOSE i \in kept : unique_classes[i][1] = crop) - 1]

\* {crop: idx for idx, crop in enumerate(unique_classes[unique_classes != None])}
ClassesToIndex(table) ==
    LET unique_classes == unique(crop_type_column(table))
        kept == SelectSeq(unique_classes, LAMBDA c : c # None)
    IN  [crop \in {kept[i][1] : i \in 1 .. Len(kept)} |->
            (CHOOSE i \in 1 .. Len(kept) : kept[i][1] = crop) - 1]

\* ------------------------------------------------------------- raster tiles
RECURSIVE Ascending(_, _)
Ascending(lo, hi) == IF lo > hi THEN <<>> ELSE <<lo>> \o Ascending(lo + 1, hi)
RECURSIVE Descending(_, _)
Descending(lo, hi) == IF lo > hi THEN <<>> ELSE <<hi>> \o Descending(lo, hi - 1)

\* which bands of the tile's first pixel are missing
NanPatterns == {{}, {2}, {2, 3}, {1, 2, 3}}

\* A file: readable or not, the longitudes (ascending) and latitudes
\* (descending) of its grid, and the missing bands of its first pixel.
Grid(xlo, xhi, ylo, yhi, p, readable) ==
    [ok |-> readable, x |-> Ascending(xlo, xhi), y |-> Descending(ylo, yhi), nan |-> p]

\* the tiles: the cell in each of two opposite corners, the whole area, and
\* one row of cells
Boxes ==
    {<<0, 0, 0, 0>>, <<MaxCoord, MaxCoord, MaxCoord, MaxCoord>>,
     <<0, MaxCoord, 0, MaxCoord>>, <<0, MaxCoord, 0, 0>>}

GoodFiles == {Grid(b[1], b[2], b[3], b[4], p, TRUE) : b \in Boxes, p \in NanPatterns}

BadFiles == {Grid(0, MaxCoord, 0, MaxCoord, {}, FALSE)}

\* the failure swallowed
LoadFails_Never(path) == FALSE

\* load_tif raises on a file it cannot read
LoadFails(path) == ~path.ok

\* the value of band k (1 green, 2 red, 3 near infrared) at cell (xi, yi)
Reflectance(da, xi, yi, k) ==
    IF xi = 1 /\ yi = 1 /\ k \in da.nan THEN NaN
    ELSE k + 3 * da.x[xi] + 5 * da.y[yi]

\* da.sel(x=..).sel(y=..).values, by index
PixelAt(da, xi, yi) == [k \in 1 .. 3 |-> Reflectance(da, xi, yi, k)]

RECURSIVE SeqMin(_)
SeqMin(s) == IF Len(s) = 1 THEN s[1]
             ELSE LET m == SeqMin(Tail(s)) IN IF s[1] <= m THEN s[1] ELSE m
RECURSIVE SeqMax(_)
SeqMax(s) == IF Len(s) = 1 THEN s[1]
             ELSE LET m == SeqMax(Tail(s)) IN IF s[1] >= m THEN s[1] ELSE m

Abs(v) == IF v < 0 THEN 0 - v ELSE v

\* ------------------------------------------------------ inherited helpers
\* closest coordinate and its index, the first one on a tie
find_nearest(coords, target) ==
    LET idx == CHOOSE i \in 1 .. Len(coords) :
                  /\ \A j \in 1 .. Len(coords) :
                        Abs(coords[i] - target) <= Abs(coords[j] - target)
                  /\ \A j \in 1 .. (i - 1) :
                        Abs(coords[j] - target) > Abs(coords[i] - target)
    IN  <<coords[idx], idx>>

Clamp(i, n) == IF i < 1 THEN 1 ELSE IF i > n THEN n ELSE i

\* the 3x3 neighbourhood of the cell, row by row; indices beyond the grid
\* take the nearest cell of the grid
get_surrounding_pixels(da, mid_lat_idx, mid_lon_idx) ==
    [p \in 1 .. 9 |->
        PixelAt(da, Clamp(mid_lon_idx - 1 + ((p - 1) % 3), Len(da.x)),
                    Clamp(mid_lat_idx - 1 + ((p - 1) \div 3), Len(da.y)))]

\* (a - b) / (a + b) in hundredths; NaN when an operand is NaN or a + b = 0
DifferenceIndex(a, b) ==
    IF a = NaN \/ b = NaN \/ a + b = 0 THEN NaN
    ELSE ((a - b) * 100) \div (a + b)

\* every pixel gains an NDVI channel, from near infrared and red
calculate_ndvi(array) ==
    [p \in 1 .. Len(array) |-> Append(array[p], DifferenceIndex(array[p][3], array[p][2]))]

\* every pixel gains an NDWI channel, from green and near infrared
calculate_ndwi(array) ==
    [p \in 1 .. Len(array) |-> Append(array[p], DifferenceIndex(array[p][1], array[p][3]))]

RECURSIVE CountNaN(_)
CountNaN(pixel) ==
    IF Len(pixel) = 0 THEN 0
    ELSE (IF pixel[1] = NaN THEN 1 ELSE 0) + CountNaN(Tail(pixel))

RECURSIVE num_nan(_)
num_nan(array) ==
    IF Len(array) = 0 THEN 0 ELSE CountNaN(array[1]) + num_nan(Tail(array))

size(array) == Len(array) * Len(array[1])

\* np.nan_to_num(array, nan=nan)
nan_to_num(array, nan) ==
    [p \in 1 .. Len(array) |->
        [k \in 1 .. Len(array[p]) |-> IF array[p][k] = NaN THEN nan ELSE array[p][k]]]

\* num_nan / size > max_ratio, the ratio being the fraction <<num, den>>
ExceedsRatio(array, max_ratio) ==
    num_nan(array) * max_ratio[2] > max_ratio[1] * size(array)

\* None when a ratio is given and exceeded, else the array with NaN replaced
maxed_nan_to_num(array, nan, max_ratio) ==
    IF max_ratio # None /\ ExceedsRatio(array, max_ratio[1]) THEN None
    ELSE Some(nan_to_num(array, nan))

\* one more sample in the running statistics; the mean and variance terms
\* are functions of the samples folded and are not carried
update_normalizing_values(norm_dict, array) == [norm_dict EXCEPT !.n = @ + 1]

\* the fold reads the array's shape, which None does not have
UpdateRaises(array) == array = None

\* the first pixels of the tile in raster order, with the same indices and
\* NaN filling as the labelled pixel, no ratio cap
process_autoencoder(da, normal_array, add_ndvi, add_ndwi, nan_fill, instances_per_label) ==
    LET raw == [i \in 1 .. instances_per_label |->
                   PixelAt(da, Clamp(i, Len(da.x)), 1)]
        a1  == IF add_ndvi THEN calculate_ndvi(raw) ELSE raw
        a2  == IF add_ndwi THEN calculate_ndwi(a1) ELSE a1
    IN  Some(nan_to_num(a2, nan_fill))

\* ------------------------------------------------------ process_single_file
\* bounds excluded
InBox_Strict(row, da) ==
    /\ row.lon < SeqMax(da.x)
    /\ row.lon > SeqMin(da.x)
    /\ row.lat < SeqMax(da.y)
    /\ row.lat > SeqMin(da.y)

\* a label row lies in the tile's bounding box, bounds included
InBox(row, da) ==
    LET min_lon == SeqMin(da.x)
        min_lat == SeqMin(da.y)
        max_lon == SeqMax(da.x)
        max_lat == SeqMax(da.y)
    IN  /\ row.lon <= max_lon
        /\ row.lon >= min_lon
        /\ row.lat <= max_lat
        /\ row.lat >= min_lat

\* self.labels[...]: the rows in the box, in table order
Overlap(table, da) == SelectSeq(table, LAMBDA row : InBox(row, da))

\* overlap.iloc[-1]
FirstOverlap_Last(overlap) == overlap[Len(overlap)]

\* overlap.iloc[0]
FirstOverlap(overlap) == overlap[1]

\* labelled_array = maxed_nan_to_num(labelled_np, nan=nan_fill, max_ratio=max_nan_ratio)
CapLabelled(labelled_np, nan_fill, max_nan_ratio) ==
    maxed_nan_to_num(labelled_np, nan_fill, max_nan_ratio)

\* the labelled array's cap passed on to the surrounding array
CapSurrounding_Capped(surrounding_np, nan_fill, max_nan_ratio) ==
    maxed_nan_to_num(surrounding_np, nan_fill, max_nan_ratio)

\* surrounding_np = maxed_nan_to_num(surrounding_np, nan=nan_fill, max_ratio=None)
CapSurrounding(surrounding_np, nan_fill, max_nan_ratio) ==
    maxed_nan_to_num(surrounding_np, nan_fill, None)

\* the test flag forgotten
ShouldFold_IgnoreTest(is_test, calculate_normalizing_dict) ==
    calculate_normalizing_dict

\* the test flag inverted
ShouldFold_TestOnly(is_test, calculate_normalizing_dict) ==
    is_test /\ calculate_normalizing_dict

\* if (not is_test) and calculate_normalizing_dict
ShouldFold(is_test, calculate_normalizing_dict) ==
    (~is_test) /\ calculate_normalizing_dict

\* if return_autoencoder_instances
AutoencoderRequested(return_autoencoder_instances, labelled_array) ==
    return_autoencoder_instances

\* What a call leaves behind: how it ended, the pair it returned, the two
\* accumulators as it left them, and the locals the properties refer to.
Outcome(how, instance, autoencoder, norm, snorm, sel, invoked, lnp, snp, larr, sarr) ==
    [outcome |-> how, data_instance |-> instance, autoencoder_instances |-> autoencoder,
     norm |-> norm, snorm |-> snorm, selected |-> sel, ae_invoked |-> invoked,
     labelled_np |-> lnp, surrounding_np |-> snp,
     labelled_array |-> larr, surrounding_array |-> sarr]

\* lines 135-149: the autoencoder instances and the return
Finish(da, a, instance, norm, snorm, sel, lnp, snp, larr, sarr) ==
    LET invoked == AutoencoderRequested(a.return_autoencoder_instances, larr)
        autoencoder ==
            IF invoked
            THEN process_autoencoder(da, larr, a.add_ndvi, a.add_ndwi, a.nan_fill,
                                     a.autoencoder_instances_per_label)
            ELSE None
    IN  Outcome("returned", instance, autoencoder, norm, snorm, sel, invoked,
                lnp, snp, larr, sarr)

\* lines 110-133: capping, the fold into the accumulators, the instance
CapAndFold(da, a, row, crop_int, lon, lat, labelled_np, surrounding_np, norm, snorm) ==
    LET labelled_array == CapLabelled(labelled_np, a.nan_fill, a.max_nan_ratio)
        surrounding == CapSurrounding(surrounding_np, a.nan_fill, a.max_nan_ratio)
        fold == ShouldFold(a.is_test, a.calculate_normalizing_dict)
        instance ==
            IF labelled_array # None
            THEN Some([label_lat |-> row.lat, label_lon |-> row.lon,
                       instance_lat |-> lat[1], instance_lon |-> lon[1],
                       labelled_array |-> labelled_array,
                       crop_label |-> row.crop_type[1], crop_int |-> crop_int,
                       surrounding_array |-> surrounding])
            ELSE None
    IN  IF fold /\ (UpdateRaises(labelled_array) \/ UpdateRaises(surrounding))
        THEN Outcome("raised", None, None, norm, snorm, TRUE, FALSE,
                     Some(labelled_np), Some(surrounding_np), labelled_array, surrounding)
        ELSE Finish(da, a, instance,
                    IF fold THEN update_normalizing_values(norm, labelled_array[1]) ELSE norm,
                    IF fold THEN update_normalizing_values(snorm, surrounding[1]) ELSE snorm,
                    TRUE, Some(labelled_np), Some(surrounding_np), labelled_array, surrounding)

\* lines 103-108: the optional index channels, labelled and surrounding alike
AddIndices(array, add_ndvi, add_ndwi) ==
    LET with_ndvi == IF add_ndvi THEN calculate_ndvi(array) ELSE array
    IN  IF add_ndwi THEN calculate_ndwi(with_ndvi) ELSE with_ndvi

\* lines 93-108: the class id, the nearest cell, the two raw arrays
Extract(da, a, row, c2i, norm, snorm) ==
    LET lon == find_nearest(da.x, row.lon)
        lat == find_nearest(da.y, row.lat)
    IN  CapAndFold(da, a, row, c2i[row.crop_type[1]], lon, lat,
                   AddIndices(<<PixelAt(da, lon[2], lat[2])>>, a.add_ndvi, a.add_ndwi),
                   AddIndices(get_surrounding_pixels(da, lat[2], lon[2]),
                              a.add_ndvi, a.add_ndwi),
                   norm, snorm)

\* lines 79-90: no row in the box, or the first one has no crop type
NoLabel(da, a, norm, snorm) ==
    Finish(da, a, None, norm, snorm, FALSE, None, None, None, None)

\* the whole of process_single_file on arguments a
process_single_file(table, c2i, norm, snorm, a) ==
    IF LoadFails(a.path)
    THEN Outcome("raised", None, None, norm, snorm, FALSE, FALSE, None, None, None, None)
    ELSE LET da == a.path
             overlap == Overlap(table, da)
         IN  IF Len(overlap) = 0
             THEN NoLabel(da, a, norm, snorm)
             ELSE IF FirstOverlap(overlap).crop_type = None
                  THEN NoLabel(da, a, norm, snorm)
                  ELSE Extract(da, a, FirstOverlap(overlap), c2i, norm, snorm)

\* ------------------------------------------------------------ state machine
Ratios == {None, Some(<<3, 10>>), Some(<<5, 10>>)}

\* every combination of the flags, on every file
Arguments ==
    [path : GoodFiles \cup BadFiles, nan_fill : {0}, max_nan_ratio : Ratios,
     add_ndvi : BOOLEAN, add_ndwi : BOOLEAN, calculate_normalizing_dict : BOOLEAN,
     is_test : BOOLEAN, return_autoencoder_instances : BOOLEAN,
     autoencoder_instances_per_label : {1}]

\* one setting of the flags (NDVI on, a ratio cap, no statistics, no
\* autoencoder), on every file
SurveyArguments ==
    [path : GoodFiles \cup BadFiles, nan_fill : {0}, max_nan_ratio : {Some(<<3, 10>>)},
     add_ndvi : {TRUE}, add_ndwi : {FALSE}, calculate_normalizing_dict : {FALSE},
     is_test : {FALSE}, return_autoencoder_instances : {FALSE},
     autoencoder_instances_per_label : {1}]

\* label tables whose rows were all collected at the origin
SiteTables == {t \in LabelTables : \A i \in 1 .. Len(t) : t[i].lat = 0 /\ t[i].lon = 0}

\* __init__ on a given label table: the class index is built, the
\* accumulators of the base class are empty
Construct(table) ==
    /\ labels = table
    /\ classes_to_index = ClassesToIndex(labels)
    /\ normalizing_dict_interim = [n |-> 0]
    /\ surrounding_normalizing_dict_interim = [n |-> 0]
    /\ call = None
    /\ result = None

Init == \E table \in SiteTables : Construct(table)

SurveyInit == \E table \in LabelTables : Construct(table)

ProcessSingleFile(a) ==
    /\ call = None
    /\ normalizing_dict_interim.n < MaxFolds
    /\ call' = Some(a)
    /\ result' = Some(process_single_file(labels, classes_to_index,
                                          normalizing_dict_interim,
                                          surrounding_normalizing_dict_interim, a))
    /\ normalizing_dict_interim' = result'[1].norm
    /\ surrounding_normalizing_dict_interim' = result'[1].snorm
    /\ UNCHANGED <<labels, classes_to_index>>

\* the caller takes the returned pair (or the exception) and moves on
Return ==
    /\ call # None
    /\ call' = None
    /\ result' = None
    /\ UNCHANGED <<labels, classes_to_index, normalizing_dict_interim,
                   surrounding_normalizing_dict_interim>>

Next ==
    \/ call = None /\ \E a \in Arguments : ProcessSingleFile(a)
    \/ Return

SurveyNext ==
    \/ call = None /\ \E a \in SurveyArguments : ProcessSingleFile(a)
    \/ Return

\* a session at one site, every flag free
Spec == Init /\ [][Next]_vars

\* a session over any label table, the flags fixed
SurveySpec == SurveyInit /\ [][SurveyNext]_vars

\* ------------------------------------------------------------- properties
Called == call # None
Args == call[1]
Res == result[1]
Loaded == Called /\ Args.path.ok
Returned == Called /\ Res.outcome = "returned"

\* the row's point is between two coordinates of the tile on each axis
InsideBox(row, tile) ==
    /\ \E i, j \in 1 .. Len(tile.x) : tile.x[i] <= row.lon /\ row.lon <= tile.x[j]
    /\ \E i, j \in 1 .. Len(tile.y) : tile.y[i] <= row.lat /\ row.lat <= tile.y[j]

OverlapIdx(tile) == {i \in 1 .. Len(labels) : InsideBox(labels[i], tile)}

FirstIdx(tile) == CHOOSE i \in OverlapIdx(tile) : \A j \in OverlapIdx(tile) : i <= j

NanEntries(array) ==
    {pk \in (1 .. Len(array)) \X (1 .. Len(array[1])) : array[pk[1]][pk[2]] = NaN}

\* more than the fraction ratio = <<num, den>> of the entries are NaN
OverRatio(array, ratio) ==
    Cardinality(NanEntries(array)) * ratio[2] > ratio[1] * Len(array) * Len(array[1])

IsFilled(out, array, nan_fill) ==
    /\ Len(out) = Len(array)
    /\ \A p \in 1 .. Len(array) :
          /\ Len(out[p]) = Len(array[p])
          /\ \A k \in 1 .. Len(array[p]) :
                out[p][k] = IF array[p][k] = NaN THEN nan_fill ELSE array[p][k]

\* the labelled array of the finished call was over the given ratio
GateRejected ==
    /\ Called
    /\ Res.labelled_np # None
    /\ Args.max_nan_ratio # None
    /\ OverRatio(Res.labelled_np[1], Args.max_nan_ratio[1])

\* C1 (as stated): a label is selected iff some row in the tile's inclusive
\* bounding box has a crop type; otherwise the data instance is None.
C1_AnyRowWithCropType ==
    Loaded =>
        LET some == \E i \in OverlapIdx(Args.path) : labels[i].crop_type # None
        IN  /\ Res.selected <=> some
            /\ ~some => (Returned /\ Res.data_instance = None)

\* C1 (amended): a label is selected iff some row lies in the tile's
\* inclusive bounding box and the first such row in table order has a crop
\* type; otherwise the call returns with data instance None.
C1_FirstRowWithCropType ==
    Loaded =>
        LET first == OverlapIdx(Args.path) # {}
                     /\ labels[FirstIdx(Args.path)].crop_type # None
        IN  /\ Res.selected <=> first
            /\ ~first => (Returned /\ Res.data_instance = None)

C1_Witness ==
    /\ Loaded
    /\ Cardinality(OverlapIdx(Args.path)) >= 2
    /\ labels[FirstIdx(Args.path)].crop_type = None
    /\ \E i \in OverlapIdx(Args.path) : labels[i].crop_type # None
    /\ ~Res.selected
    /\ Returned /\ Res.data_instance = None

\* C2: a labelled array over the NaN ratio is rejected without an
\* exception: the call returns, with data instance None, whatever is_test
\* and calculate_normalizing_dict are.
C2_GateRejectionReturns ==
    GateRejected => (Returned /\ Res.data_instance = None)

C4_ReturnIndependentOfFlags ==
    Loaded =>
        LET other == process_single_file(labels, classes_to_index,
                        normalizing_dict_interim, surrounding_normalizing_dict_interim,
                        [Args EXCEPT !.calculate_normalizing_dict = ~@])
            test  == process_single_file(labels, classes_to_index,
                        normalizing_dict_interim, surrounding_normalizing_dict_interim,
                        [Args EXCEPT !.is_test = ~@])
        IN  /\ other.outcome = Res.outcome
            /\ other.data_instance = Res.data_instance
            /\ other.autoencoder_instances = Res.autoencoder_instances
            /\ test.outcome = Res.outcome
            /\ test.data_instance = Res.data_instance

\* C5: on a loaded tile process_autoencoder is invoked exactly when
\* return_autoencoder_instances is set, label or no label, and the
\* autoencoder instances returned are None exactly when it is not set.
C5_AutoencoderIndependentOfLabel ==
    Loaded =>
        /\ Res.ae_invoked <=> Args.return_autoencoder_instances
        /\ Returned =>
              ((Res.autoencoder_instances = None) <=> ~Args.return_autoencoder_instances)

\* C6: a returned data instance carries the latitude, longitude and crop
\* type of the first row, in table order, that lies in the tile's box.
C6_FirstOverlappingRowUsed ==
    (Returned /\ Res.data_instance # None) =>
        LET row == labels[FirstIdx(Args.path)]
            di  == Res.data_instance[1]
        IN  /\ di.label_lat = row.lat
            /\ di.label_lon = row.lon
            /\ Some(di.crop_label) = row.crop_type

C6_Witness ==
    /\ Returned /\ Res.data_instance # None
    /\ \E i \in OverlapIdx(Args.path) :
          /\ i # FirstIdx(Args.path)
          /\ labels[i].crop_type # None
          /\ labels[i].crop_type # labels[FirstIdx(Args.path)].crop_type
          /\ labels[i].lat # labels[FirstIdx(Args.path)].lat

FirstSeen(crop) ==
    CHOOSE i \in 1 .. Len(labels) :
        /\ labels[i].crop_type = Some(crop)
        /\ \A j \in 1 .. (i - 1) : labels[j].crop_type # Some(crop)

C7_Index ==
    LET crops == {labels[i].crop_type[1] :
                     i \in {j \in 1 .. Len(labels) : labels[j].crop_type # None}}
    IN  /\ DOMAIN classes_to_index = crops
        /\ {classes_to_index[c] : c \in crops} = 0 .. (Cardinality(crops) - 1)
        /\ \A c, d \in crops :
              FirstSeen(c) < FirstSeen(d) => classes_to_index[c] < classes_to_index[d]
        /\ (Returned /\ Res.data_instance # None) =>
              Res.data_instance[1].crop_int
                  = classes_to_index[Res.data_instance[1].crop_label]

\* C7: the class index maps the distinct crop types of the label table one
\* to one onto 0..n-1 in the order they first appear, no step changes it,
\* and a returned data instance has crop_int = classes_to_index[crop_label].
C7_ClassIndexBijection ==
    /\ []C7_Index
    /\ [][classes_to_index' = classes_to_index]_vars

C7_Witness ==
    /\ Len(labels) = 2
    /\ labels[1].crop_type = None
    /\ labels[2].crop_type = Some("tea")
    /\ Returned /\ Res.data_instance # None
    /\ Res.data_instance[1].crop_int = 0

\* the arguments and labels of the end-to-end case: one row in the tile's
\* box, its crop type the first class, nothing missing in the tile, NDVI
\* and statistics on, not a test
EndToEndCase(a) ==
    /\ a.path.ok /\ a.path.nan = {}
    /\ a.add_ndvi /\ a.calculate_normalizing_dict /\ ~a.is_test
    /\ Cardinality(OverlapIdx(a.path)) = 1
    /\ labels[FirstIdx(a.path)].crop_type # None
    /\ \A j \in 1 .. Len(labels) :
          labels[j].crop_type \in {None, labels[FirstIdx(a.path)].crop_type}

C9_LoadFailureLeavesState ==
    [][(call' # None /\ ~call'[1].path.ok)
       => /\ result'[1].outcome = "raised"
          /\ normalizing_dict_interim' = normalizing_dict_interim
          /\ surrounding_normalizing_dict_interim' = surrounding_normalizing_dict_interim
          /\ classes_to_index' = classes_to_index]_vars

C9_Witness ==
    /\ Called /\ ~Args.path.ok
    /\ Res.outcome = "raised"
    /\ Args.calculate_normalizing_dict /\ ~Args.is_test
    /\ Len(labels) > 0 /\ labels[1].crop_type # None
    /\ normalizing_dict_interim.n = 1

\* C10: the labelled array is None exactly when a ratio is given and the
\* NaN fraction is strictly above it, and otherwise is the array with each
\* NaN replaced by nan_fill; the surrounding array is always the filled one.
C10_NanCapping ==
    (Called /\ Res.labelled_np # None) =>
        LET rejected == Args.max_nan_ratio # None
                        /\ OverRatio(Res.labelled_np[1], Args.max_nan_ratio[1])
        IN  /\ (Res.labelled_array = None) <=> rejected
            /\ ~rejected =>
                  IsFilled(Res.labelled_array[1], Res.labelled_np[1], Args.nan_fill)
            /\ Res.surrounding_array # None
            /\ IsFilled(Res.surrounding_array[1], Res.surrounding_np[1], Args.nan_fill)

\* one NaN among three entries: rejected at 3/10, and the surrounding
\* array, just as far over the ratio, filled
C10_Witness ==
    /\ Called /\ Res.labelled_np # None
    /\ Len(Res.labelled_np[1][1]) = 3
    /\ Cardinality(NanEntries(Res.labelled_np[1])) = 1
    /\ Args.max_nan_ratio = Some(<<3, 10>>)
    /\ Res.labelled_array = None
    /\ OverRatio(Res.surrounding_np[1], <<3, 10>>)
    /\ Res.surrounding_array # None

====
